---------------------------- MODULE Spec2Model ----------------------------
(***************************************************************************)
(* Model of the two figure scripts of multi-omics-gxe-ncd-review:          *)
(*   script "A"  PubmedCitations_SeqCost_Trend.py  (citation / cost trend) *)
(*   script "B"  gwas_sampleSize_WorldMap.py       (sample-size map)       *)
(* Each script is a straight-line batch job; pc is the statement the       *)
(* running script is about to execute.  An uncaught exception ends the run *)
(* at pc = "failed".                                                       *)
(***************************************************************************)
EXTENDS Integers, Sequences, FiniteSets, TLC

VARIABLES
    script,            \* which script this run executes: "A" or "B"
    pc,                \* the statement about to be executed
    image,             \* the image files written by savefig so far
    \* ---- script B
    gwas_csv,          \* the file GWASmonitor_Data.csv on disk
    naturalearth,      \* the dataset naturalearth_lowres as read_file found it
    data,              \* DataFrame read from GWASmonitor_Data.csv
    aggregated_data,   \* DataFrame aggregated_data
    world,             \* GeoDataFrame world
    \* ---- script A
    pubmed,            \* the external index: what it holds for each query
    year_iter,         \* for year in years: how many years were taken
    sent,              \* the GET requests issued so far, in order
    outstanding,       \* the GET requests awaiting their response
    citations_per_year_multiomics,
    citations_per_year_personalized_medicine,
    citations_per_year_gxe,
    cost_xls,          \* the spreadsheet as read_excel found it
    cost_data,         \* DataFrame cost_data
    cost_data_grouped, \* DataFrame cost_data_grouped
    log_citations_multiomics,
    log_citations_personalized_medicine,
    log_citations_gxe,
    citation_yticks,   \* the ticks set on ax1
    cost_yticks,       \* the ticks set on ax2
    response,          \* get_citations: what requests.get produced
    returned           \* get_citations: what the last call returned

envB == <<gwas_csv, naturalearth>>
varsB == <<envB, data, aggregated_data, world>>
citations == <<citations_per_year_multiomics,
               citations_per_year_personalized_medicine,
               citations_per_year_gxe>>
fetchA == <<pubmed, year_iter, sent, outstanding, citations>>
log_citations == <<log_citations_multiomics,
                   log_citations_personalized_medicine, log_citations_gxe>>
costA == <<cost_xls, cost_data, cost_data_grouped>>
plotA == <<log_citations, citation_yticks, cost_yticks>>
varsA == <<fetchA, costA, plotA, response, returned>>
vars == <<script, pc, image, varsB, varsA>>

(***************************************************************************)
(* Bounds of the model.                                                    *)
(***************************************************************************)
MaxRows == 2           \* rows of the GWAS csv file
MaxTextLen == 3        \* characters of a result-count text
MaxCostRows == 2       \* rows of the sequencing-cost spreadsheet

(***************************************************************************)
(* pandas' missing value.                                                  *)
(***************************************************************************)
NaN == "NaN"

\* An uncaught exception: the interpreter prints the traceback and exits.
Raise == pc' = "failed"

RECURSIVE SeqSumN(_)
SeqSumN(rows) ==
    IF rows = <<>> THEN 0 ELSE rows[1].N + SeqSumN(Tail(rows))

(***************************************************************************)
(* Script B: gwas_sampleSize_WorldMap.py                                   *)
(***************************************************************************)

\* Entity names the csv file may hold, in the order Python sorts strings
\* (groupby sorts its keys).
NameOrder ==
    << "France", "Korea, South", "South Korea",
       "United States", "United States of America" >>

DataNames == { NameOrder[i] : i \in 1..Len(NameOrder) }

\* Sample sizes a csv row may hold: 0, 1 and the thresholds of the scale.
DataValues == {0, 1, 100, 500, 5000, 100000, 1000000}

DataRows == [index : DataNames, N : DataValues]

DataFrames == UNION { [1..n -> DataRows] : n \in 0..MaxRows }

\* The reference dataset naturalearth_lowres, as (name, continent) rows.
WorldFrames ==
    { << [name |-> "Antarctica", continent |-> "Antarctica"],
         [name |-> "France", continent |-> "Europe"],
         [name |-> "Mali", continent |-> "Africa"],
         [name |-> "South Korea", continent |-> "Asia"],
         [name |-> "United States of America", continent |-> "North America"] >> }

\* A file on disk: present with its rows, or missing.
NoFile == [exists |-> FALSE, rows |-> <<>>]
FileOf(rows) == [exists |-> TRUE, rows |-> rows]

GwasFiles == { FileOf(df) : df \in DataFrames } \cup {NoFile}
WorldFiles == { FileOf(w) : w \in WorldFrames } \cup {NoFile}

\* categories = {...}: the labels of the scale, in legend order.
categories ==
    << ">1 million", "100k-1M", "5k-100k", "501-5k", "101-500", "1-100",
       "0", "No Data" >>

\* categorize_sample_size with inclusive lower edges (a variant).
categorize_sample_size_ge(n) ==
    IF n >= 1000000 THEN ">1 million"
    ELSE IF n >= 100000 THEN "100k-1M"
    ELSE IF n >= 5000 THEN "5k-100k"
    ELSE IF n >= 500 THEN "501-5k"
    ELSE IF n >= 100 THEN "101-500"
    ELSE IF n > 0 THEN "1-100"
    ELSE "0"

\* def categorize_sample_size(sample_size): lines 57-71
categorize_sample_size(n) ==
    IF n > 1000000 THEN ">1 million"
    ELSE IF n > 100000 THEN "100k-1M"
    ELSE IF n > 5000 THEN "5k-100k"
    ELSE IF n > 500 THEN "501-5k"
    ELSE IF n > 100 THEN "101-500"
    ELSE IF n > 0 THEN "1-100"
    ELSE "0"

\* Series.replace(old, new) on column 'index'.
ReplaceIndex(df, old, new) ==
    [i \in 1..Len(df) |->
        IF df[i].index = old THEN [df[i] EXCEPT !.index = new] ELSE df[i]]

RowsOf(df, key) == SelectSeq(df, LAMBDA r : r.index = key)

\* data.groupby('index').agg({'N': 'sum'}).reset_index()
GroupBySum(df) ==
    LET keys == SelectSeq(NameOrder, LAMBDA k : RowsOf(df, k) # <<>>)
    IN  [i \in 1..Len(keys) |->
            [index |-> keys[i], N |-> SeqSumN(RowsOf(df, keys[i]))]]

\* aggregated_data['N'].apply(categorize_sample_size), as a Categorical
\* (a label outside the categories becomes NaN).
ApplyCategories(df) ==
    [i \in 1..Len(df) |->
        LET c == categorize_sample_size(df[i].N)
        IN  [index |-> df[i].index, N |-> df[i].N,
             sample_size_category |->
                 IF \E j \in 1..Len(categories) : categories[j] = c
                 THEN c ELSE NaN]]

\* aggregated_data.loc[aggregated_data['index'] == old, 'index'] = new
RenameIndex(df, old, new) == ReplaceIndex(df, old, new)

\* world[world['continent'] != 'Antarctica']
ExcludeAntarctica(w) == SelectSeq(w, LAMBDA r : r.continent # "Antarctica")

MergedRow(l, r) ==
    [name |-> l.name, continent |-> l.continent, index |-> r.index,
     N |-> r.N, sample_size_category |-> r.sample_size_category]

UnmatchedRow(l) ==
    [name |-> l.name, continent |-> l.continent, index |-> NaN,
     N |-> NaN, sample_size_category |-> NaN]

\* world.merge(aggregated_data, how='left', left_on='name', right_on='index')
RECURSIVE LeftMerge(_, _)
LeftMerge(left, right) ==
    IF left = <<>> THEN <<>>
    ELSE LET l == Head(left)
             m == RowsOf(right, l.name)
         IN  (IF m = <<>> THEN << UnmatchedRow(l) >>
              ELSE [i \in 1..Len(m) |-> MergedRow(l, m[i])])
             \o LeftMerge(Tail(left), right)

\* world['sample_size_category'].fillna('No Data')
FillNaCategory(w) ==
    [i \in 1..Len(w) |->
        IF w[i].sample_size_category = NaN
        THEN [w[i] EXCEPT !.sample_size_category = "No Data"]
        ELSE w[i]]

(***************************************************************************)
(* Script A: PubmedCitations_SeqCost_Trend.py                              *)
(***************************************************************************)

\* Text is a sequence of one-character strings.
Digits == <<"0", "1", "2", "3", "4", "5", "6", "7", "8", "9">>

IsDigit(c) == \E i \in 1..Len(Digits) : Digits[i] = c

DigitValue(c) == (CHOOSE i \in 1..Len(Digits) : Digits[i] = c) - 1

IsSpace(c) == c = " "

\* str.split(): the maximal runs of non-whitespace characters, in order.
RECURSIVE SplitFrom(_, _)
SplitFrom(text, token) ==
    IF text = <<>>
    THEN IF token = <<>> THEN <<>> ELSE <<token>>
    ELSE IF IsSpace(Head(text))
         THEN (IF token = <<>> THEN <<>> ELSE <<token>>)
              \o SplitFrom(Tail(text), <<>>)
         ELSE SplitFrom(Tail(text), Append(token, Head(text)))

Split(text) == SplitFrom(text, <<>>)

\* str.replace(',', '')
RemoveCommas(token) == SelectSeq(token, LAMBDA c : c # ",")

\* int(s) accepts a non-empty string of decimal digits (of the characters
\* the model draws text from) and raises ValueError for anything else.
IntAccepts(token) ==
    /\ token # <<>>
    /\ \A i \in 1..Len(token) : IsDigit(token[i])

RECURSIVE IntOf(_)
IntOf(token) ==
    IF token = <<>> THEN 0
    ELSE 10 * IntOf(SubSeq(token, 1, Len(token) - 1))
         + DigitValue(token[Len(token)])

\* What a call yields: a value, or an exception that propagates.
Return(v) == [raised |-> FALSE, value |-> v]
Raised == [raised |-> TRUE, value |-> 0]

\* What requests.get(url) produces: it raises (the network is unreachable),
\* or yields a page; the page may hold <div class="results-amount">, that
\* div may hold a <span>, whose text is `text`.
ConnectionError == [raised |-> TRUE, status |-> 0, div |-> FALSE,
                    span |-> FALSE, text |-> <<>>]
Page(status, div, span, text) ==
    [raised |-> FALSE, status |-> status, div |-> div, span |-> span,
     text |-> text]

\* get_citations with int(results_info.split()[0]): the commas stay.
get_citations_keeps_commas(r) ==
    IF r.raised THEN Raised
    ELSE IF r.div /\ r.span
         THEN LET tokens == Split(r.text)
              IN  IF tokens = <<>> THEN Raised
                  ELSE IF IntAccepts(tokens[1])
                       THEN Return(IntOf(tokens[1]))
                       ELSE Raised
         ELSE Return(0)

\* get_citations(year, query_terms), from the response on.
get_citations(r) ==
    IF r.raised THEN Raised                       \* requests.get raised
    ELSE IF r.div /\ r.span
         THEN LET tokens == Split(r.text)         \* results_info.split()
              IN  IF tokens = <<>> THEN Raised    \* [0]: IndexError
                  ELSE IF IntAccepts(RemoveCommas(tokens[1]))
                       THEN Return(IntOf(RemoveCommas(tokens[1])))
                       ELSE Raised                \* int(): ValueError
         ELSE Return(0)

\* The characters result-count texts are drawn from.
Alphabet == {"0", "1", ",", " ", "r"}

Texts == UNION { [1..n -> Alphabet] : n \in 0..MaxTextLen }

Responses ==
    {ConnectionError}
    \cup { Page(st, FALSE, FALSE, <<>>) : st \in {200, 404, 500} }
    \cup { Page(200, TRUE, FALSE, <<>>) }
    \cup { Page(200, TRUE, TRUE, t) : t \in Texts }

NoReturn == [raised |-> FALSE, value |-> -1]
NoResponse == Page(0, FALSE, FALSE, <<>>)

\* range(start, stop): start, start + 1, ..., stop - 1.
PyRange(start, stop) ==
    [i \in 1..(IF stop > start THEN stop - start ELSE 0) |-> start + i - 1]

years == PyRange(2000, 2024)

multiomics_terms == <<"multiomics", "multi-omics", "Multiomics", "Multi-omics">>
personalized_medicine_terms ==
    <<"personalized-medicine", "precision-medicine", "personalized medicine",
      "precision medicine">>
gxe_terms ==
    <<"gene-environment interaction", "gene-environment correlation",
      "GxE interaction", "GxE">>

\* The three calls of the loop body, in statement order.
LoopCalls == <<multiomics_terms, personalized_medicine_terms, gxe_terms>>

\* A dict: its items in insertion order.
DictKeys(d) == [i \in 1..Len(d) |-> d[i].k]
DictHas(d, k) == \E i \in 1..Len(d) : d[i].k = k
DictGet(d, k) == d[CHOOSE i \in 1..Len(d) : d[i].k = k].v
\* d[k] = v
DictSet(d, k, v) ==
    IF DictHas(d, k)
    THEN [i \in 1..Len(d) |-> IF d[i].k = k THEN [k |-> k, v |-> v] ELSE d[i]]
    ELSE Append(d, [k |-> k, v |-> v])

\* ---- the external index (environment) ----
\* How the index prints a count: decimal digits with thousands separators.
RECURSIVE DigitsOf(_)
DigitsOf(n) ==
    IF n < 10 THEN <<Digits[n + 1]>>
    ELSE Append(DigitsOf(n \div 10), Digits[(n % 10) + 1])

RECURSIVE WithSeparators(_)
WithSeparators(n) ==
    IF n < 1000 THEN DigitsOf(n)
    ELSE WithSeparators(n \div 1000)
         \o <<",", Digits[((n \div 100) % 10) + 1],
              Digits[((n \div 10) % 10) + 1], Digits[(n % 10) + 1]>>

QueryIndex(terms) == CHOOSE t \in 1..Len(LoopCalls) : LoopCalls[t] = terms

\* The documents the index holds for (year, terms): none before the index's
\* onset year, and a number that differs for every query from then on.
Hits(ix, year, terms) ==
    IF year < ix.onset THEN 0
    ELSE ix.scale * (Len(LoopCalls) * (year - ix.onset) + QueryIndex(terms))

\* The page the index answers a query with.
PubmedPage(ix, year, terms) ==
    LET n == Hits(ix, year, terms)
    IN  IF n > 0
        THEN Page(200, TRUE, TRUE, WithSeparators(n) \o <<" ", "r", "e", "s", "u", "l", "t", "s">>)
        ELSE CASE ix.empty = "message" ->
                    Page(200, TRUE, TRUE, <<"N", "o", " ", "r", "e", "s", "u", "l", "t", "s">>)
               [] QueryIndex(terms) = 1 -> Page(200, FALSE, FALSE, <<>>)
               [] QueryIndex(terms) = 2 -> Page(200, TRUE, FALSE, <<>>)
               [] OTHER -> Page(404, FALSE, FALSE, <<>>)

\* Without documents for a query the index answers with a page that lacks
\* the result count (no div, a div without span, an error page, by topic),
\* or, for empty = "message", with a message in place of the count.
Indexes ==
    { [onset |-> 2000, scale |-> 125, empty |-> "no marker"],
      [onset |-> 2012, scale |-> 1, empty |-> "no marker"],
      [onset |-> 2012, scale |-> 1, empty |-> "message"] }

NoIndex == [onset |-> 0, scale |-> 0, empty |-> "no marker"]

\* ---- the fetch loop ----
IsA(pcs) == script = "A" /\ pc \in pcs

year == years[year_iter]

Query(y, terms) == [year |-> y, terms |-> terms]

\* for year in years:
ForYear ==
    /\ IsA({"for"})
    /\ IF year_iter < Len(years)
       THEN year_iter' = year_iter + 1 /\ pc' = "get_1"
       ELSE UNCHANGED year_iter /\ pc' = "read_excel"
    /\ UNCHANGED <<script, image, varsB, pubmed, sent, outstanding, citations,
                   costA, plotA, response, returned>>

CallPc(t) == IF t = 1 THEN "get_1" ELSE IF t = 2 THEN "get_2" ELSE "get_3"
WaitPc(t) == IF t = 1 THEN "wait_1" ELSE IF t = 2 THEN "wait_2" ELSE "wait_3"
AfterCallPc(t) == IF t < Len(LoopCalls) THEN CallPc(t + 1) ELSE "for"

\* requests.get(url): the request goes out.
SendRequest(t) ==
    /\ IsA({CallPc(t)})
    /\ sent' = Append(sent, Query(year, LoopCalls[t]))
    /\ outstanding' = outstanding \cup {Query(year, LoopCalls[t])}
    /\ pc' = WaitPc(t)
    /\ UNCHANGED <<script, image, varsB, pubmed, year_iter, citations,
                   costA, plotA, response, returned>>

\* The three stores with the last two topics' maps exchanged (a variant).
StoreSwapped(t, y, v) ==
    /\ citations_per_year_multiomics' =
           IF t = 1 THEN DictSet(citations_per_year_multiomics, y, v)
           ELSE citations_per_year_multiomics
    /\ citations_per_year_personalized_medicine' =
           IF t = 3 THEN DictSet(citations_per_year_personalized_medicine, y, v)
           ELSE citations_per_year_personalized_medicine
    /\ citations_per_year_gxe' =
           IF t = 2 THEN DictSet(citations_per_year_gxe, y, v)
           ELSE citations_per_year_gxe

\* citations_per_year_<topic>[year] = <the value returned by call t>
Store(t, y, v) ==
    /\ citations_per_year_multiomics' =
           IF t = 1 THEN DictSet(citations_per_year_multiomics, y, v)
           ELSE citations_per_year_multiomics
    /\ citations_per_year_personalized_medicine' =
           IF t = 2 THEN DictSet(citations_per_year_personalized_medicine, y, v)
           ELSE citations_per_year_personalized_medicine
    /\ citations_per_year_gxe' =
           IF t = 3 THEN DictSet(citations_per_year_gxe, y, v)
           ELSE citations_per_year_gxe

\* The request completes (with a page, or by raising), get_citations parses
\* the page and the loop body stores what it returned.
ReceiveResponse(t) ==
    /\ IsA({WaitPc(t)})
    /\ response' \in {ConnectionError, PubmedPage(pubmed, year, LoopCalls[t])}
    /\ outstanding' = outstanding \ {Query(year, LoopCalls[t])}
    /\ returned' = get_citations(response')
    /\ IF returned'.raised
       THEN Raise /\ UNCHANGED citations
       ELSE Store(t, year, returned'.value) /\ pc' = AfterCallPc(t)
    /\ UNCHANGED <<script, image, varsB, pubmed, year_iter, sent, costA, plotA>>



\* ---- numbers ----
\* A rational num/den in lowest terms, den > 0.
RECURSIVE Gcd(_, _)
Gcd(a, b) == IF b = 0 THEN a ELSE Gcd(b, a % b)

Abs(a) == IF a < 0 THEN -a ELSE a

Rat(n, d) ==
    LET g == Gcd(Abs(n), d)
    IN  IF n = 0 THEN [num |-> 0, den |-> 1]
        ELSE [num |-> n \div g, den |-> d \div g]

RatAdd(a, b) == Rat(a.num * b.den + b.num * a.den, a.den * b.den)
RatDivInt(a, k) == Rat(a.num, a.den * k)

\* A float (or int) the script computes with:
\*   kind "int"    the integer num
\*   kind "log10"  the real number log10(num/den), num/den > 0
\*   kind "half"   the real number num/2
\*   kind "-inf", "nan"
PyInt(n) == [kind |-> "int", num |-> n, den |-> 1]
NegInf == [kind |-> "-inf", num |-> 0, den |-> 1]
FloatNaN == [kind |-> "nan", num |-> 0, den |-> 1]
Half(k) == [kind |-> "half", num |-> k, den |-> 2]

IsFinite(x) == x.kind \notin {"-inf", "nan"}

\* np.log10(q) of a rational q: -inf at 0 and nan below 0, each with a
\* RuntimeWarning only.
Log10(q) ==
    IF q.num > 0 THEN [kind |-> "log10", num |-> q.num, den |-> q.den]
    ELSE IF q.num = 0 THEN NegInf
    ELSE FloatNaN

\* x <= y for x, y among the ints n >= 0 and the log10 values:
\* log10 is increasing, and n = log10(10^n).
RECURSIVE TenTo(_)
TenTo(k) == IF k = 0 THEN 1 ELSE 10 * TenTo(k - 1)

Antilog(x) ==
    IF x.kind = "int" THEN [num |-> TenTo(x.num), den |-> 1]
    ELSE [num |-> x.num, den |-> x.den]

Leq(x, y) == Antilog(x).num * Antilog(y).den <= Antilog(y).num * Antilog(x).den

\* min(values), max(values): the first of the smallest (largest) items.
RECURSIVE MinFrom(_, _)
MinFrom(values, best) ==
    IF values = <<>> THEN best
    ELSE MinFrom(Tail(values),
                 IF Leq(best, Head(values)) THEN best ELSE Head(values))

MinOf(values) == MinFrom(Tail(values), Head(values))

RECURSIVE MaxFrom(_, _)
MaxFrom(values, best) ==
    IF values = <<>> THEN best
    ELSE MaxFrom(Tail(values),
                 IF Leq(Head(values), best) THEN best ELSE Head(values))

MaxOf(values) == MaxFrom(Tail(values), Head(values))

\* floor(2 * log10(a/b)) and ceil(2 * log10(a/b)) for a, b > 0, where
\* sq = (a/b)^2 as the pair <<a*a, b*b>>.
RECURSIVE FloorLog10(_, _)
FloorLog10(a, b) ==
    IF a >= 10 * b THEN FloorLog10(a, 10 * b) + 1
    ELSE IF a < b THEN FloorLog10(10 * a, b) - 1
    ELSE 0

RECURSIVE CeilLog10(_, _)
CeilLog10(a, b) ==
    IF a > b THEN CeilLog10(a, 10 * b) + 1
    ELSE IF 10 * a <= b THEN CeilLog10(10 * a, b) - 1
    ELSE 0

\* np.floor(x * 2) / 2
FloorToHalf(x) ==
    IF ~IsFinite(x) THEN x
    ELSE LET q == Antilog(x)
         IN  Half(FloorLog10(q.num * q.num, q.den * q.den))

\* np.ceil(x * 2) / 2
CeilToHalf(x) ==
    IF ~IsFinite(x) THEN x
    ELSE LET q == Antilog(x)
         IN  Half(CeilLog10(q.num * q.num, q.den * q.den))

\* An arange that accepts every pair of ends (a variant).
ArangeNeverRaises(lo, hi) == FALSE

\* np.arange(lo, hi + 0.5, 0.5) for lo, hi multiples of one half: it raises
\* when the length cannot be computed (an end that is not finite).
ArangeRaises(lo, hi) == ~IsFinite(lo) \/ ~IsFinite(hi)

\* np.arange(lo, hi, 0.5): the end without the added half (a variant).
ArangeWithoutHalf(lo, hi) ==
    [i \in 1..(IF hi.num > lo.num THEN hi.num - lo.num ELSE 0) |->
        Half(lo.num + i - 1)]

\* np.arange(lo, hi + 0.5, 0.5)
Arange(lo, hi) ==
    [i \in 1..(IF hi.num + 1 > lo.num THEN hi.num + 1 - lo.num ELSE 0) |->
        Half(lo.num + i - 1)]

\* ---- the sequencing-cost table ----
\* A Date cell as (year, month, day); pd.to_datetime(errors='coerce') turns
\* a cell that is no calendar date into NaT.
IsLeap(y) == (y % 4 = 0 /\ y % 100 # 0) \/ y % 400 = 0

DaysIn(y, m) ==
    IF m = 2 THEN (IF IsLeap(y) THEN 29 ELSE 28)
    ELSE IF m \in {4, 6, 9, 11} THEN 30 ELSE 31

ParsesAsDate(d) ==
    /\ d[2] \in 1..12
    /\ d[3] \in 1..DaysIn(d[1], d[2])

\* The year of a cell whether or not it is a calendar date (a variant).
YearOfAnyCell(d) == PyInt(d[1])

\* pd.to_datetime(cell, errors='coerce').dt.year
YearOf(d) == IF ParsesAsDate(d) THEN PyInt(d[1]) ELSE FloatNaN

DateCells == { <<2020, 1, 1>>, <<2020, 6, 1>>, <<2021, 2, 30>>, <<2021, 3, 1>> }

CostCells == { Rat(-1, 100), Rat(0, 1), Rat(1, 100), Rat(3, 100) }

CostRows == [Date : DateCells, Cost_per_Mb : CostCells]

CostFrames == UNION { [1..n -> CostRows] : n \in 0..MaxCostRows }

\* The spreadsheet on disk: missing, or with its columns and rows.
NoSheet == [exists |-> FALSE, columns |-> {}, rows |-> <<>>]
SheetOf(columns, rows) == [exists |-> TRUE, columns |-> columns, rows |-> rows]

CostSheets ==
    { SheetOf({"Date", "Cost per Mb", "Cost per Genome"}, df) : df \in CostFrames }
    \cup { SheetOf({"Date", "Cost per Genome"}, <<>>), NoSheet }

\* cost_data['Year'] = pd.to_datetime(cost_data['Date'], errors='coerce').dt.year
WithYear(df) ==
    [i \in 1..Len(df) |->
        [Date |-> df[i].Date, Cost_per_Mb |-> df[i].Cost_per_Mb,
         Year |-> YearOf(df[i].Date)]]

RECURSIVE Ascending(_)
Ascending(S) ==
    IF S = {} THEN <<>>
    ELSE LET m == CHOOSE x \in S : \A y \in S : x <= y
         IN  <<m>> \o Ascending(S \ {m})

RECURSIVE SeqSumCost(_)
SeqSumCost(rows) ==
    IF rows = <<>> THEN Rat(0, 1)
    ELSE RatAdd(rows[1].Cost_per_Mb, SeqSumCost(Tail(rows)))

\* cost_data.groupby('Year')['Cost per Mb'].mean().reset_index():
\* one row per Year that is not NaN, in ascending order.
GroupByMean(df) ==
    LET keys == Ascending({ df[i].Year.num : i \in { j \in 1..Len(df) : df[j].Year.kind = "int" } })
        group(y) == SelectSeq(df, LAMBDA r : r.Year.kind = "int" /\ r.Year.num = y)
    IN  [i \in 1..Len(keys) |->
            [Year |-> PyInt(keys[i]),
             Cost_per_Mb |-> RatDivInt(SeqSumCost(group(keys[i])), Len(group(keys[i])))]]

\* np.log10(v) for every v, zero included (a variant).
LogTransformNoFloor(v) == Log10(Rat(v, 1))

\* np.log10(v) if v > 0 else 0
LogTransform(v) == IF v > 0 THEN Log10(Rat(v, 1)) ELSE PyInt(0)

\* {k: np.log10(v) if v > 0 else 0 for k, v in d.items()}
LogDict(d) == [i \in 1..Len(d) |-> [k |-> d[i].k, v |-> LogTransform(d[i].v)]]

DictValues(d) == [i \in 1..Len(d) |-> d[i].v]

\* cost_data_grouped['Log_Cost_per_Mb'] = np.log10(cost_data_grouped['Cost per Mb'])
WithLogCost(df) ==
    [i \in 1..Len(df) |->
        [Year |-> df[i].Year, Cost_per_Mb |-> df[i].Cost_per_Mb,
         Log_Cost_per_Mb |-> Log10(df[i].Cost_per_Mb)]]

\* Series.min() and Series.max(): NaN entries are skipped; NaN when nothing
\* is left.
NotNaN(values) == SelectSeq(values, LAMBDA x : x.kind # "nan")

SeriesMin(values) ==
    LET v == NotNaN(values)
    IN  IF v = <<>> THEN FloatNaN
        ELSE IF \E i \in 1..Len(v) : v[i].kind = "-inf" THEN NegInf
        ELSE MinOf(v)

SeriesMax(values) ==
    LET v == NotNaN(values)
        f == SelectSeq(v, LAMBDA x : x.kind # "-inf")
    IN  IF v = <<>> THEN FloatNaN
        ELSE IF f = <<>> THEN NegInf
        ELSE MaxOf(f)

LogCosts == [i \in 1..Len(cost_data_grouped) |-> cost_data_grouped[i].Log_Cost_per_Mb]

TrendPath ==
    "/disk/XX/misc/adelaide/multiomics_personalized_medicine_cost_per_mb_trend_refined.png"

UnchangedFetch == UNCHANGED <<fetchA, response, returned>>

\* pd.read_excel(path, usecols=["Date", "Cost per Mb"]): FileNotFoundError
\* for a missing file, ValueError for a missing column.
ReadExcel ==
    /\ IsA({"read_excel"})
    /\ \E sheet \in CostSheets :
          /\ cost_xls' = sheet
          /\ IF sheet.exists /\ {"Date", "Cost per Mb"} \subseteq sheet.columns
             THEN cost_data' = sheet.rows /\ pc' = "to_datetime"
             ELSE Raise /\ UNCHANGED cost_data
    /\ UnchangedFetch
    /\ UNCHANGED <<script, image, varsB, cost_data_grouped, plotA>>

ToDatetime ==
    /\ IsA({"to_datetime"})
    /\ cost_data' = WithYear(cost_data)
    /\ pc' = "groupby_year"
    /\ UnchangedFetch
    /\ UNCHANGED <<script, image, varsB, cost_xls, cost_data_grouped, plotA>>

GroupByYear ==
    /\ IsA({"groupby_year"})
    /\ cost_data_grouped' = GroupByMean(cost_data)
    /\ pc' = "log_citations"
    /\ UnchangedFetch
    /\ UNCHANGED <<script, image, varsB, cost_xls, cost_data, plotA>>

LogCitations ==
    /\ IsA({"log_citations"})
    /\ log_citations_multiomics' = LogDict(citations_per_year_multiomics)
    /\ log_citations_personalized_medicine' =
           LogDict(citations_per_year_personalized_medicine)
    /\ log_citations_gxe' = LogDict(citations_per_year_gxe)
    /\ pc' = "log_cost"
    /\ UnchangedFetch
    /\ UNCHANGED <<script, image, varsB, costA, citation_yticks, cost_yticks>>

LogCost ==
    /\ IsA({"log_cost"})
    /\ cost_data_grouped' = WithLogCost(cost_data_grouped)
    /\ pc' = "yticks_citations"
    /\ UnchangedFetch
    /\ UNCHANGED <<script, image, varsB, cost_xls, cost_data, plotA>>

\* The citation lines are drawn, then
\* ax1.set_yticks(np.arange(citation_min, citation_max + 0.5, 0.5))
CitationTicks ==
    /\ IsA({"yticks_citations"})
    /\ LET citation_min == FloorToHalf(MinOf(DictValues(log_citations_multiomics)))
           citation_max == CeilToHalf(MaxOf(DictValues(log_citations_multiomics)))
       IN  citation_yticks' = Arange(citation_min, citation_max)
    /\ pc' = "yticks_cost"
    /\ UnchangedFetch
    /\ UNCHANGED <<script, image, varsB, costA, log_citations, cost_yticks>>

\* The cost line is drawn, then
\* ax2.set_yticks(np.arange(cost_min, cost_max + 0.5, 0.5))
CostTicks ==
    /\ IsA({"yticks_cost"})
    /\ LET cost_min == FloorToHalf(SeriesMin(LogCosts))
           cost_max == CeilToHalf(SeriesMax(LogCosts))
       IN  IF ArangeRaises(cost_min, cost_max)
           THEN Raise /\ UNCHANGED cost_yticks
           ELSE cost_yticks' = Arange(cost_min, cost_max) /\ pc' = "savefig_trend"
    /\ UnchangedFetch
    /\ UNCHANGED <<script, image, varsB, costA, log_citations, citation_yticks>>

\* plt.savefig(save_path, bbox_inches='tight')
SaveTrend ==
    /\ IsA({"savefig_trend"})
    /\ \/ /\ image' = image \cup {TrendPath}
          /\ pc' = "done"
       \/ /\ Raise           \* the output directory cannot be written
          /\ UNCHANGED image
    /\ UnchangedFetch
    /\ UNCHANGED <<script, varsB, costA, plotA>>

MapPath == "/disk/CC/GWAS_population_adjusted_map.png"

\* data = pd.read_csv(...): a missing file raises FileNotFoundError.
ReadCsv ==
    /\ script = "B" /\ pc = "read_csv"
    /\ IF gwas_csv.exists
       THEN data' = gwas_csv.rows /\ pc' = "replace"
       ELSE Raise /\ UNCHANGED data
    /\ UNCHANGED <<script, image, varsA, envB, aggregated_data, world>>

ReplaceKorea ==
    /\ script = "B" /\ pc = "replace"
    /\ data' = ReplaceIndex(data, "Korea, South", "South Korea")
    /\ pc' = "groupby"
    /\ UNCHANGED <<script, image, varsA, envB, aggregated_data, world>>

Aggregate ==
    /\ script = "B" /\ pc = "groupby"
    /\ aggregated_data' = GroupBySum(data)
    /\ pc' = "categorize"
    /\ UNCHANGED <<script, image, varsA, envB, data, world>>

Categorize ==
    /\ script = "B" /\ pc = "categorize"
    /\ aggregated_data' = ApplyCategories(aggregated_data)
    /\ pc' = "rename"
    /\ UNCHANGED <<script, image, varsA, envB, data, world>>

RenameUnitedStates ==
    /\ script = "B" /\ pc = "rename"
    /\ aggregated_data' =
           RenameIndex(aggregated_data, "United States", "United States of America")
    /\ pc' = "read_world"
    /\ UNCHANGED <<script, image, varsA, envB, data, world>>

\* world = gpd.read_file(...); world = world[world['continent'] != 'Antarctica']
ReadWorld ==
    /\ script = "B" /\ pc = "read_world"
    /\ \E file \in WorldFiles :
          /\ naturalearth' = file
          /\ IF file.exists
             THEN world' = ExcludeAntarctica(file.rows) /\ pc' = "merge"
             ELSE Raise /\ UNCHANGED world
    /\ UNCHANGED <<script, image, varsA, gwas_csv, data, aggregated_data>>

Merge ==
    /\ script = "B" /\ pc = "merge"
    /\ world' = LeftMerge(world, aggregated_data)
    /\ pc' = "fillna"
    /\ UNCHANGED <<script, image, varsA, envB, data, aggregated_data>>

FillNa ==
    /\ script = "B" /\ pc = "fillna"
    /\ world' = FillNaCategory(world)
    /\ pc' = "plot_map"
    /\ UNCHANGED <<script, image, varsA, envB, data, aggregated_data>>

PlotMap ==
    /\ script = "B" /\ pc = "plot_map"
    /\ \/ pc' = "savefig_map"
       \/ Raise              \* the renderer fails
    /\ UNCHANGED <<script, image, varsA, varsB>>

SaveMap ==
    /\ script = "B" /\ pc = "savefig_map"
    /\ \/ /\ image' = image \cup {MapPath}
          /\ pc' = "done"
       \/ /\ Raise           \* the output directory cannot be written
          /\ UNCHANGED image
    /\ UNCHANGED <<script, varsA, varsB>>

NextB ==
    \/ ReadCsv \/ ReplaceKorea \/ Aggregate \/ Categorize
    \/ RenameUnitedStates \/ ReadWorld \/ Merge \/ FillNa \/ PlotMap \/ SaveMap

InitB ==
    /\ script = "B" /\ pc = "read_csv"
    /\ image = {}
    /\ response = NoResponse /\ returned = NoReturn
    /\ pubmed = NoIndex /\ year_iter = 0 /\ sent = <<>> /\ outstanding = {}
    /\ citations_per_year_multiomics = <<>>
    /\ citations_per_year_personalized_medicine = <<>>
    /\ citations_per_year_gxe = <<>>
    /\ cost_xls = NoSheet /\ cost_data = <<>> /\ cost_data_grouped = <<>>
    /\ log_citations_multiomics = <<>>
    /\ log_citations_personalized_medicine = <<>>
    /\ log_citations_gxe = <<>>
    /\ citation_yticks = <<>> /\ cost_yticks = <<>>
    /\ gwas_csv \in GwasFiles
    /\ naturalearth = NoFile
    /\ data = <<>> /\ aggregated_data = <<>> /\ world = <<>>

InitA ==
    /\ script = "A" /\ pc = "for"
    /\ image = {}
    /\ gwas_csv = NoFile /\ naturalearth = NoFile
    /\ data = <<>> /\ aggregated_data = <<>> /\ world = <<>>
    /\ pubmed \in Indexes
    /\ year_iter = 0 /\ sent = <<>> /\ outstanding = {}
    /\ citations_per_year_multiomics = <<>>
    /\ citations_per_year_personalized_medicine = <<>>
    /\ citations_per_year_gxe = <<>>
    /\ cost_xls = NoSheet /\ cost_data = <<>> /\ cost_data_grouped = <<>>
    /\ log_citations_multiomics = <<>>
    /\ log_citations_personalized_medicine = <<>>
    /\ log_citations_gxe = <<>>
    /\ citation_yticks = <<>> /\ cost_yticks = <<>>
    /\ response = NoResponse /\ returned = NoReturn

NextA ==
    \/ ForYear
    \/ \E t \in 1..Len(LoopCalls) : SendRequest(t)
    \/ \E t \in 1..Len(LoopCalls) : ReceiveResponse(t)
    \/ ReadExcel \/ ToDatetime \/ GroupByYear \/ LogCitations \/ LogCost
    \/ CitationTicks \/ CostTicks \/ SaveTrend

Init == InitA \/ InitB

Next == NextA \/ NextB

Spec == Init /\ [][Next]_vars

(***************************************************************************)
(* get_citations on its own, over every response of the bounded set.       *)
(***************************************************************************)
InitFetch ==
    /\ script = "get_citations" /\ pc = "call"
    /\ image = {}
    /\ gwas_csv = NoFile /\ naturalearth = NoFile
    /\ data = <<>> /\ aggregated_data = <<>> /\ world = <<>>
    /\ response \in Responses
    /\ returned = NoReturn
    /\ pubmed = NoIndex /\ year_iter = 0 /\ sent = <<>> /\ outstanding = {}
    /\ citations_per_year_multiomics = <<>>
    /\ citations_per_year_personalized_medicine = <<>>
    /\ citations_per_year_gxe = <<>>
    /\ cost_xls = NoSheet /\ cost_data = <<>> /\ cost_data_grouped = <<>>
    /\ log_citations_multiomics = <<>>
    /\ log_citations_personalized_medicine = <<>>
    /\ log_citations_gxe = <<>>
    /\ citation_yticks = <<>> /\ cost_yticks = <<>>

CallGetCitations ==
    /\ script = "get_citations" /\ pc = "call"
    /\ returned' = get_citations(response)
    /\ pc' = IF returned'.raised THEN "failed" ELSE "returned"
    /\ UNCHANGED <<script, image, response, fetchA, costA, plotA, varsB>>

SpecFetch == InitFetch /\ [][CallGetCitations]_vars

(***************************************************************************)
(* The log transform of lines 77-79 on its own, over every count map of    *)
(* the bounded set.                                                        *)
(***************************************************************************)
MaxCount == 12
MaxSeries == 2

\* The count maps with the first n years as keys, n <= MaxSeries.
CountDicts(longest) ==
    UNION { { [i \in 1..n |-> [k |-> years[i], v |-> f[i]]] :
                f \in [1..n -> 0..MaxCount] } : n \in 0..longest }

InitLog ==
    /\ script = "A" /\ pc = "log_citations"
    /\ image = {}
    /\ gwas_csv = NoFile /\ naturalearth = NoFile
    /\ data = <<>> /\ aggregated_data = <<>> /\ world = <<>>
    /\ response = NoResponse /\ returned = NoReturn
    /\ pubmed = NoIndex /\ year_iter = 0 /\ sent = <<>> /\ outstanding = {}
    /\ citations_per_year_multiomics \in CountDicts(MaxSeries)
    /\ citations_per_year_personalized_medicine \in CountDicts(1)
    /\ citations_per_year_gxe = <<>>
    /\ cost_xls = NoSheet /\ cost_data = <<>> /\ cost_data_grouped = <<>>
    /\ log_citations_multiomics = <<>>
    /\ log_citations_personalized_medicine = <<>>
    /\ log_citations_gxe = <<>>
    /\ citation_yticks = <<>> /\ cost_yticks = <<>>

SpecLog == InitLog /\ [][LogCitations]_vars

(***************************************************************************)
(* Claims about script B.                                                  *)
(***************************************************************************)

IsB(pcs) == script = "B" /\ pc \in pcs

Categorized == IsB({"rename", "read_world", "merge", "fillna", "plot_map",
                    "savefig_map", "done"})
HandedToJoin == IsB({"read_world", "merge", "fillna", "plot_map",
                     "savefig_map", "done"})
Joined == IsB({"plot_map", "savefig_map", "done"})

Range(f) == { f[i] : i \in DOMAIN f }

\* The bands of the scale as half-open intervals lo < n <= hi
\* (hi = -1: no upper end).
Bands ==
    << [label |-> ">1 million", lo |-> 1000000, hi |-> -1],
       [label |-> "100k-1M", lo |-> 100000, hi |-> 1000000],
       [label |-> "5k-100k", lo |-> 5000, hi |-> 100000],
       [label |-> "501-5k", lo |-> 500, hi |-> 5000],
       [label |-> "101-500", lo |-> 100, hi |-> 500],
       [label |-> "1-100", lo |-> 0, hi |-> 100] >>

InBand(n, b) == b.lo < n /\ (b.hi = -1 \/ n <= b.hi)

\* The label the scale gives total n: the one band holding n, or '0'.
LabelOf(n, c) ==
    /\ n >= 0
    /\ \/ n = 0 /\ c = "0"
       \/ \E i \in 1..Len(Bands) : InBand(n, Bands[i]) /\ c = Bands[i].label
    /\ Cardinality({ i \in 1..Len(Bands) : InBand(n, Bands[i]) })
           = (IF n = 0 THEN 0 ELSE 1)

RowsLabelled ==
    /\ Categorized =>
          \A i \in 1..Len(aggregated_data) :
              LabelOf(aggregated_data[i].N, aggregated_data[i].sample_size_category)
    /\ Joined =>
          \A i \in 1..Len(world) :
              /\ world[i].sample_size_category \in Range(categories)
              /\ IF world[i].index = NaN
                 THEN world[i].sample_size_category = "No Data"
                 ELSE LabelOf(world[i].N, world[i].sample_size_category)

BoundaryCases ==
    Categorized =>
       \A i \in 1..Len(aggregated_data) :
          LET r == aggregated_data[i]
          IN  /\ r.N = 100000 => r.sample_size_category = "5k-100k"
              /\ r.N = 100001 => r.sample_size_category = "100k-1M"
              /\ r.N = 0 => r.sample_size_category = "0"
              /\ \A j \in 1..Len(Bands) :
                    /\ r.N = Bands[j].lo + 1 => r.sample_size_category = Bands[j].label
                    /\ r.N = Bands[j].lo => r.sample_size_category # Bands[j].label

\* C1 as stated: every total, and the absent case, gets exactly one of the
\* 7 labels of the scale, with strict boundaries.
C1_SevenLabels ==
    /\ RowsLabelled
    /\ BoundaryCases
    /\ Joined => Cardinality(Range(categories)) = 7

\* C1 (amended): every non-negative total, and the absent case, gets exactly
\* one of the 8 labels of the scale (six bands above 0, '0', and 'No Data');
\* a total equal to a threshold T falls in the band below T and T + 1 in the
\* band above it; 0 maps to '0'; an unmatched region gets 'No Data'.
C1_Categorize ==
    /\ RowsLabelled
    /\ BoundaryCases
    /\ Joined => Cardinality(Range(categories)) = 8

C1_Witness ==
    /\ Joined
    /\ \E i \in 1..Len(world) :
          world[i].index # NaN /\ world[i].N = 100001
          /\ world[i].sample_size_category = "100k-1M"
    /\ \E i \in 1..Len(world) :
          world[i].index = NaN /\ world[i].sample_size_category = "No Data"

\* normalize_name of the specification: the two corrections of the table.
CanonicalName(raw) ==
    IF raw = "Korea, South" THEN "South Korea"
    ELSE IF raw = "United States" THEN "United States of America"
    ELSE raw

RECURSIVE SumOver(_, _)
SumOver(f, S) ==
    IF S = {} THEN 0
    ELSE LET i == CHOOSE j \in S : TRUE IN f[i].N + SumOver(f, S \ {i})

Observations(c) ==
    { i \in 1..Len(gwas_csv.rows) : CanonicalName(gwas_csv.rows[i].index) = c }

Entries(c) == { i \in 1..Len(aggregated_data) : aggregated_data[i].index = c }

\* C2: the aggregate table handed to the join has exactly one entry per
\* canonical name that has observations, holding the sum of their values
\* (0 included), and no entry for a name without observations.
C2_OneEntryPerCanonicalName ==
    HandedToJoin =>
       \A c \in DataNames \cup { CanonicalName(n) : n \in DataNames } :
          IF Observations(c) = {}
          THEN Entries(c) = {}
          ELSE /\ Cardinality(Entries(c)) = 1
               /\ \A i \in Entries(c) :
                     aggregated_data[i].N = SumOver(gwas_csv.rows, Observations(c))

Regions == ExcludeAntarctica(naturalearth.rows)

\* C3: every region appears exactly once in the join's result, with the
\* category of the aggregate of that name, or 'No Data' when there is none,
\* and nothing else adds a row.
C3_LeftJoin ==
    Joined =>
       /\ Len(world) = Len(Regions)
       /\ \A k \in 1..Len(Regions) :
             LET rows == { i \in 1..Len(world) : world[i].name = Regions[k].name }
             IN  /\ Cardinality(rows) = 1
                 /\ \A i \in rows :
                       IF Entries(Regions[k].name) = {}
                       THEN world[i].sample_size_category = "No Data"
                       ELSE \E j \in Entries(Regions[k].name) :
                               world[i].sample_size_category =
                                   aggregated_data[j].sample_size_category

(***************************************************************************)
(* Claims about get_citations.                                             *)
(***************************************************************************)

RECURSIVE Pow10(_)
Pow10(k) == IF k = 0 THEN 1 ELSE 10 * Pow10(k - 1)

RECURSIVE SumSet(_, _)
SumSet(f, S) ==
    IF S = {} THEN 0
    ELSE LET i == CHOOSE j \in S : TRUE IN f[i] + SumSet(f, S \ {i})

\* The first whitespace-delimited word of a text: its positions.
LeadingWord(text) ==
    { j \in 1..Len(text) :
         /\ ~IsSpace(text[j])
         /\ \A k \in 1..j : IsSpace(text[k]) => \A m \in 1..k : IsSpace(text[m]) }

\* The text starts with a count: digits, with ',' as thousands separator.
HasLeadingInteger(text) ==
    /\ \E j \in LeadingWord(text) : IsDigit(text[j])
    /\ \A j \in LeadingWord(text) : IsDigit(text[j]) \/ text[j] = ","

\* The number the digits of the leading word denote.
LeadingInteger(text) ==
    LET D == { j \in LeadingWord(text) : IsDigit(text[j]) }
        place == [j \in D |->
                     DigitValue(text[j]) * Pow10(Cardinality({ k \in D : k > j }))]
    IN  SumSet(place, D)

Called == script = "get_citations" /\ pc # "call"

MarkerPresent == ~response.raised /\ response.div /\ response.span

ReturnsLeadingInteger ==
    (Called /\ MarkerPresent /\ HasLeadingInteger(response.text)) =>
        returned = Return(LeadingInteger(response.text))

\* C4 as stated: 0 without an error whenever the marker is absent, a failed
\* request included; the leading integer when the marker is present.
C4_ZeroOnRequestFailure ==
    /\ (Called /\ ~MarkerPresent) => returned = Return(0)
    /\ ReturnsLeadingInteger

\* C4 (amended): whenever requests.get yields a response without the marker
\* (empty result set, page-structure mismatch, an HTTP error page),
\* get_citations returns 0 without an error; when requests.get itself raises,
\* the exception propagates; when the marker is present and its text starts
\* with a count, it returns that count with the separators removed.
C4_ZeroWhenMarkerAbsent ==
    /\ (Called /\ ~response.raised /\ ~MarkerPresent) =>
           returned = Return(0) /\ pc = "returned"
    /\ (Called /\ response.raised) => returned.raised /\ pc = "failed"
    /\ ReturnsLeadingInteger

C4_Witness ==
    /\ Called /\ MarkerPresent
    /\ response.text = <<"1", ",", "0">>
    /\ returned = Return(10)

(***************************************************************************)
(* Claims about script A.                                                  *)
(***************************************************************************)

AfterLoopPcs ==
    {"read_excel", "to_datetime", "groupby_year", "log_citations", "log_cost",
     "yticks_citations", "yticks_cost", "savefig_trend", "done"}
LoopDone == IsA(AfterLoopPcs)
Grouped == IsA(AfterLoopPcs \ {"read_excel", "to_datetime", "groupby_year"})
Logged == IsA({"log_cost", "yticks_citations", "yticks_cost", "savefig_trend", "done"})
CostLogged == IsA({"yticks_citations", "yticks_cost", "savefig_trend", "done"})
CitationTicked == IsA({"yticks_cost", "savefig_trend", "done"})
CostTicked == IsA({"savefig_trend", "done"})

CountMaps ==
    <<citations_per_year_multiomics, citations_per_year_personalized_medicine,
      citations_per_year_gxe>>
LogMaps ==
    <<log_citations_multiomics, log_citations_personalized_medicine,
      log_citations_gxe>>

OneEntryFor(d, y) == Cardinality({ i \in 1..Len(d) : d[i].k = y }) = 1

\* C5: after the fetch loop every count map, and every log-transformed
\* series, has exactly one entry for each year 2000, 2001, ..., 2024.
C5_Covers2000To2024 ==
    /\ LoopDone =>
          \A t \in 1..Len(CountMaps) : \A y \in 2000..2024 :
              OneEntryFor(CountMaps[t], y)
    /\ Logged =>
          \A t \in 1..Len(LogMaps) : \A y \in 2000..2024 :
              OneEntryFor(LogMaps[t], y)

\* The i-th lookup of a run: year by year, the three topics in turn.
ExpectedQuery(i) ==
    Query(years[((i - 1) \div Len(LoopCalls)) + 1],
          LoopCalls[((i - 1) % Len(LoopCalls)) + 1])

KeysAscending(d) == \A i \in 1..(Len(d) - 1) : d[i].k < d[i + 1].k

\* The lookups of topic t that have returned, given that the lookups are
\* issued in the order of ExpectedQuery and the last one may be outstanding.
Returned(t) ==
    (Len(sent) - Cardinality(outstanding) + Len(LoopCalls) - t) \div Len(LoopCalls)

\* C8: the lookups go out one at a time, one per (year, topic), 3N in all,
\* each only after the one before it returned; each result is stored under
\* its own year in its own topic's map only; the years of every series
\* ascend.
C8_SequentialCalls ==
    script = "A" =>
       /\ Cardinality(outstanding) <= 1
       /\ outstanding \subseteq { sent[i] : i \in {Len(sent)} \ {0} }
       /\ (outstanding # {}) = (pc \in {"wait_1", "wait_2", "wait_3"})
       /\ \A i \in 1..Len(sent) : sent[i] = ExpectedQuery(i)
       /\ LoopDone => Len(sent) = Len(LoopCalls) * Len(years)
       /\ \A t \in 1..Len(CountMaps) :
             LET d == CountMaps[t]
             IN  /\ KeysAscending(d)
                 /\ KeysAscending(LogMaps[t])
                 /\ Len(d) <= Returned(t)
                 /\ pc # "failed" => Len(d) = Returned(t)
                 /\ \A e \in 1..Len(d) :
                       /\ d[e].k = years[e]
                       /\ d[e].v = Hits(pubmed, d[e].k, LoopCalls[t])

C8_Witness ==
    /\ IsA({"read_excel"})
    /\ Len(sent) = 72
    /\ Len(citations_per_year_gxe) = 24
    /\ citations_per_year_gxe[24].v # citations_per_year_multiomics[24].v

SameReal(x, y) == Leq(x, y) /\ Leq(y, x)

\* C7: the transform maps count 0 to 0 and any other count c to log10(c);
\* counts 0 and 1 get the same value 0, every count >= 2 a positive value,
\* and the value never decreases as the count grows.
C7_LogTransform ==
    Logged =>
       \A t \in 1..Len(CountMaps) :
          LET c == CountMaps[t]
              l == LogMaps[t]
          IN  /\ Len(l) = Len(c)
              /\ \A i \in 1..Len(c) :
                    /\ l[i].k = c[i].k
                    /\ IsFinite(l[i].v)
                    /\ c[i].v = 0 => l[i].v = PyInt(0)
                    /\ c[i].v # 0 => l[i].v = Log10(Rat(c[i].v, 1))
                    /\ c[i].v \in {0, 1} => SameReal(l[i].v, PyInt(0))
                    /\ c[i].v >= 2 => ~Leq(l[i].v, PyInt(0))
                    /\ \A j \in 1..Len(c) :
                          c[i].v <= c[j].v => Leq(l[i].v, l[j].v)

C7_Witness ==
    /\ Logged
    /\ \E i, j \in 1..Len(citations_per_year_multiomics) :
          /\ citations_per_year_multiomics[i].v = 0
          /\ citations_per_year_multiomics[j].v = 1
          /\ SameReal(log_citations_multiomics[i].v, log_citations_multiomics[j].v)

RECURSIVE RatSum(_, _)
RatSum(rows, S) ==
    IF S = {} THEN Rat(0, 1)
    ELSE LET i == CHOOSE j \in S : TRUE
         IN  RatAdd(rows[i].Cost_per_Mb, RatSum(rows, S \ {i}))

\* The rows of the spreadsheet dated in year y.
RowsDated(y) ==
    { i \in 1..Len(cost_xls.rows) :
         ParsesAsDate(cost_xls.rows[i].Date) /\ cost_xls.rows[i].Date[1] = y }

RecordsOf(y) ==
    { i \in 1..Len(cost_data_grouped) : cost_data_grouped[i].Year = PyInt(y) }

\* C9: a row whose date does not parse is dropped without an error and
\* enters no group; every year with a parseable row gets exactly one record,
\* the arithmetic mean of the costs of exactly that year's rows.
C9_CostLoader ==
    Grouped =>
       /\ \A y \in { d[1] : d \in DateCells } :
             IF RowsDated(y) = {} THEN RecordsOf(y) = {}
             ELSE /\ Cardinality(RecordsOf(y)) = 1
                  /\ \A i \in RecordsOf(y) :
                        LET m == cost_data_grouped[i].Cost_per_Mb
                            total == RatSum(cost_xls.rows, RowsDated(y))
                        IN  m.num * Cardinality(RowsDated(y)) * total.den
                                = total.num * m.den
       /\ \A i \in 1..Len(cost_data_grouped) :
             RowsDated(cost_data_grouped[i].Year.num) # {}
       /\ (/\ Len(cost_xls.rows) = 2
           /\ \A i \in 1..2 : cost_xls.rows[i].Date[1] = 2020
                              /\ ParsesAsDate(cost_xls.rows[i].Date)
           /\ cost_xls.rows[1].Cost_per_Mb = Rat(1, 100)
           /\ cost_xls.rows[2].Cost_per_Mb = Rat(3, 100))
          => /\ Len(cost_data_grouped) = 1
             /\ cost_data_grouped[1].Year = PyInt(2020)
             /\ cost_data_grouped[1].Cost_per_Mb = Rat(2, 100)

C9_Witness ==
    /\ Grouped
    /\ Len(cost_xls.rows) = 2
    /\ ~ParsesAsDate(cost_xls.rows[1].Date)
    /\ cost_xls.rows[1].Cost_per_Mb = Rat(3, 100)
    /\ cost_xls.rows[2].Cost_per_Mb = Rat(1, 100)
    /\ Len(cost_data_grouped) = 1
    /\ cost_data_grouped[1].Cost_per_Mb = Rat(1, 100)

\* 10^k <= a/b and a/b <= 10^k, for a, b > 0 and any integer k.
TenToLeq(k, a, b) == IF k >= 0 THEN TenTo(k) * b <= a ELSE b <= a * TenTo(-k)
LeqTenTo(k, a, b) == IF k >= 0 THEN a <= TenTo(k) * b ELSE a * TenTo(-k) <= b

\* The square of 10^v: 10^(k/2) <= 10^v iff 10^k <= Square(v).
Square(v) == [num |-> Antilog(v).num * Antilog(v).num,
              den |-> Antilog(v).den * Antilog(v).den]

\* ticks is what compute_ticks owes for these values with step one half.
TicksFor(ticks, values) ==
    /\ Len(ticks) >= 1
    /\ \A i \in 1..Len(ticks) : ticks[i].kind = "half"
    /\ \A i \in 1..(Len(ticks) - 1) : ticks[i + 1].num = ticks[i].num + 1
    /\ LET first == ticks[1].num
           last == ticks[Len(ticks)].num
       IN  /\ \A i \in 1..Len(values) :
                 /\ TenToLeq(first, Square(values[i]).num, Square(values[i]).den)
                 /\ LeqTenTo(last, Square(values[i]).num, Square(values[i]).den)
           \* first = floor(2 min): some value lies below first + 1
           /\ \E i \in 1..Len(values) :
                 ~TenToLeq(first + 1, Square(values[i]).num, Square(values[i]).den)
           \* last = ceil(2 max): some value lies above last - 1
           /\ \E i \in 1..Len(values) :
                 ~LeqTenTo(last - 1, Square(values[i]).num, Square(values[i]).den)

\* C10: the ticks are spaced one half apart and strictly increasing, start
\* at floor(min/0.5)*0.5 and end at ceil(max/0.5)*0.5, so that every value
\* lies between the first and the last; there is always at least one tick.
C10_Ticks ==
    /\ CitationTicked =>
          TicksFor(citation_yticks, DictValues(log_citations_multiomics))
    /\ CostTicked => TicksFor(cost_yticks, NotNaN(LogCosts))

C10_Witness ==
    /\ CostTicked
    /\ Len(cost_yticks) = 1
    /\ Len(citation_yticks) > 1
    /\ Len(NotNaN(LogCosts)) = 2

(***************************************************************************)
(* Claims about both scripts.                                              *)
(***************************************************************************)

SheetReadable(sheet) ==
    sheet.exists /\ {"Date", "Cost per Mb"} \subseteq sheet.columns

\* Every stage of script A ran to its end without raising.
StagesDoneA ==
    /\ ~response.raised /\ ~returned.raised
    /\ outstanding = {} /\ Len(sent) = Len(LoopCalls) * Len(years)
    /\ \A t \in 1..Len(CountMaps) :
          Len(CountMaps[t]) = Len(years) /\ Len(LogMaps[t]) = Len(years)
    /\ SheetReadable(cost_xls)
    /\ cost_data = WithYear(cost_xls.rows)
    /\ \A i \in 1..Len(cost_data_grouped) :
          cost_data_grouped[i].Log_Cost_per_Mb
              = Log10(cost_data_grouped[i].Cost_per_Mb)
    /\ citation_yticks # <<>> /\ cost_yticks # <<>>

\* Every stage of script B ran to its end without raising.
StagesDoneB ==
    /\ gwas_csv.exists /\ naturalearth.exists
    /\ Len(world) >= Len(Regions)
    /\ \A i \in 1..Len(world) : world[i].sample_size_category # NaN

MeanCosts == [i \in 1..Len(cost_data_grouped) |-> cost_data_grouped[i].Cost_per_Mb]

\* The error conditions the code does not handle end the run.
ErrorsEndTheRun ==
    /\ (script = "A" /\ (response.raised \/ returned.raised)) => pc = "failed"
    /\ (script = "A" /\ pc \notin {"for", "get_1", "get_2", "get_3", "wait_1",
                                   "wait_2", "wait_3", "read_excel"}
        /\ ~SheetReadable(cost_xls)) => pc = "failed"
    /\ (script = "B" /\ ~gwas_csv.exists) => pc \in {"read_csv", "failed"}
    /\ (script = "B" /\ ~naturalearth.exists) =>
           pc \in {"read_csv", "replace", "groupby", "categorize", "rename",
                   "read_world", "failed"}

NoPartialOutput ==
    /\ pc = "failed" => image = {}
    /\ image # {} =>
          /\ pc = "done"
          /\ script = "A" => image = {TrendPath} /\ StagesDoneA
          /\ script = "B" => image = {MapPath} /\ StagesDoneB

\* C6 as stated: an unhandled error condition (network unreachable, file
\* not found, malformed schema, a non-positive cost) ends the run with no
\* image; the image is saved only after every stage completed without error.
C6_NonPositiveCostFails ==
    /\ ErrorsEndTheRun
    /\ NoPartialOutput
    /\ (script = "A" /\ CostLogged
        /\ \E i \in 1..Len(MeanCosts) : MeanCosts[i].num <= 0) =>
           image = {} /\ pc \in {"yticks_citations", "yticks_cost", "failed"}

\* C6 (amended): network unreachable, file not found, a malformed
\* spreadsheet schema, a yearly mean cost of zero and a table without any
\* positive yearly mean end the run with no image; a negative yearly mean
\* is no error (its log10 is NaN, which the tick computation skips).  The
\* image is saved only after every stage completed without raising.
C6_NoPartialOutput ==
    /\ ErrorsEndTheRun
    /\ NoPartialOutput
    /\ (script = "A" /\ CostLogged
        /\ \/ \E i \in 1..Len(MeanCosts) : MeanCosts[i].num = 0
           \/ \A i \in 1..Len(MeanCosts) : MeanCosts[i].num <= 0) =>
           image = {} /\ pc \in {"yticks_citations", "yticks_cost", "failed"}

C6_Witness ==
    /\ script = "A" /\ pc = "done" /\ image = {TrendPath}
    /\ \E i \in 1..Len(MeanCosts) : MeanCosts[i].num < 0
    /\ \E i \in 1..Len(MeanCosts) : MeanCosts[i].num > 0

=============================================================================
